---------------------------- MODULE Spec2Model ----------------------------
(***************************************************************************)
(* Model of motor_control_ui.py: the serial connection owned by            *)
(* MotorControlUI, the SerialReaderThread listener, the GCodeRunnerThread  *)
(* program runner and the motor / servo / G-code handlers of the window.   *)
(*                                                                         *)
(* Text is modelled as sequences of one-character strings, so that         *)
(* strip(), split(), int() and the f-string formatting are computed and    *)
(* not assumed.  The handlers of the window run on the GUI thread; the     *)
(* two QThread subclasses run concurrently with it, so a handler that      *)
(* writes several lines, or that blocks in wait(), is a sequence of steps  *)
(* of the GUI thread between which the other threads may run.              *)
(* Widget enablement (setEnabled) is presentation and is not modelled: the *)
(* handlers are the operations the window offers.                          *)
(***************************************************************************)
EXTENDS Integers, Sequences, FiniteSets, TLC

\* ------------------------------------------------------------------ bounds
\* serial.Serial objects created in one behaviour
MaxHandles == 2
\* GCodeRunnerThread objects created in one behaviour
MaxRuns == 2
\* the longest program whose progress percentages are computed
MaxTotal == 50

\* ------------------------------------------------------------------- text
Digits == <<"0", "1", "2", "3", "4", "5", "6", "7", "8", "9">>

DigitChars == {Digits[k] : k \in 1..10}

DigitVal(c) == (CHOOSE k \in 1..10 : Digits[k] = c) - 1

\* the characters str.strip() removes
Whitespace == {" ", "\n"}

RECURSIVE LStrip(_)
LStrip(s) ==
    IF s # <<>> /\ Head(s) \in Whitespace THEN LStrip(Tail(s)) ELSE s

RECURSIVE RStrip(_)
RStrip(s) ==
    IF s # <<>> /\ s[Len(s)] \in Whitespace
    THEN RStrip(SubSeq(s, 1, Len(s) - 1))
    ELSE s

\* str.strip()
Strip(s) == RStrip(LStrip(s))

\* str.split('\n'): the pieces between the separators, empty pieces kept
RECURSIVE SplitAcc(_, _, _)
SplitAcc(s, cur, acc) ==
    IF s = <<>> THEN Append(acc, cur)
    ELSE IF Head(s) = "\n" THEN SplitAcc(Tail(s), <<>>, Append(acc, cur))
    ELSE SplitAcc(Tail(s), Append(cur, Head(s)), acc)

SplitLines(s) == SplitAcc(s, <<>>, <<>>)

\* [f(x) for x in seq if p(x)] with f = p = strip, as in run_gcode
RECURSIVE StrippedNonEmpty(_)
StrippedNonEmpty(ls) ==
    IF ls = <<>> THEN <<>>
    ELSE IF Strip(Head(ls)) # <<>>
         THEN <<Strip(Head(ls))>> \o StrippedNonEmpty(Tail(ls))
         ELSE StrippedNonEmpty(Tail(ls))

\* value of a run of decimal digits
RECURSIVE DigitsVal(_)
DigitsVal(s) ==
    IF s = <<>> THEN 0
    ELSE 10 * DigitsVal(SubSeq(s, 1, Len(s) - 1)) + DigitVal(s[Len(s)])

AllDigits(s) == s # <<>> /\ \A k \in 1..Len(s) : s[k] \in DigitChars

\* int(text): surrounding whitespace ignored, an optional sign, then digits;
\* anything else raises ValueError (ok = FALSE)
ParseInt(text) ==
    LET t == Strip(text)
        signed == t # <<>> /\ Head(t) \in {"+", "-"}
        body == IF signed THEN Tail(t) ELSE t
    IN  IF AllDigits(body)
        THEN [ok |-> TRUE,
              val |-> IF signed /\ Head(t) = "-" THEN 0 - DigitsVal(body)
                      ELSE DigitsVal(body)]
        ELSE [ok |-> FALSE, val |-> 0]

\* f"{n}" for an int
RECURSIVE FormatNat(_)
FormatNat(n) ==
    IF n < 10 THEN <<Digits[n + 1]>>
    ELSE FormatNat(n \div 10) \o <<Digits[(n % 10) + 1]>>

FormatInt(n) == IF n < 0 THEN <<"-">> \o FormatNat(0 - n) ELSE FormatNat(n)

\* str.lower() on the axis letters
LowerOf == [c \in {"X", "Y", "Z", "E", "R", "T"} |->
             CASE c = "X" -> "x" [] c = "Y" -> "y" [] c = "Z" -> "z"
               [] c = "E" -> "e" [] c = "R" -> "r" [] c = "T" -> "t"]

Lower(c) == LowerOf[c]

\* ------------------------------------------------- float arithmetic (binary64)
\* a float is [m, e]: m the 53-bit significand in three limbs of 19, 18 and 16
\* bits, m[1] * 2^34 + m[2] * 2^16 + m[3] with 2^18 <= m[1] < 2^19; its
\* value is significand * 2^(e - 52)
IncLimbs(m) ==
    IF m[3] + 1 < 2^16 THEN <<m[1], m[2], m[3] + 1>>
    ELSE IF m[2] + 1 < 2^18 THEN <<m[1], m[2] + 1, 0>>
    ELSE <<m[1] + 1, 0, 0>>

\* round to nearest, ties to even: kept is the first 53 bits of the exact
\* value, what follows them being above, at, or below one half of the last
\* kept place; e is the exponent of the first kept bit
RoundEven(kept, e, above, atHalf) ==
    IF above \/ (atHalf /\ kept[3] % 2 = 1)
    THEN LET up == IncLimbs(kept)
         IN  IF up[1] = 2^19
             THEN [m |-> <<2^18, 0, 0>>, e |-> e + 1]
             ELSE [m |-> up, e |-> e]
    ELSE [m |-> kept, e |-> e]

\* the least s with current * 2^s >= total
Scale(current, total) ==
    CHOOSE s \in 0..30 :
        /\ current * 2^s >= total
        /\ \A u \in 0..(s - 1) : current * 2^u < total

\* current / total for ints 1 <= current <= total: the float nearest to the
\* quotient, by long division limb after limb
TrueDiv(current, total) ==
    LET s == Scale(current, total)
        n == current * 2^s
        d0 == n \div total
        r0 == n % total
        d1 == (r0 * 2^18) \div total
        r1 == (r0 * 2^18) % total
        d2 == (r1 * 2^18) \div total
        r2 == (r1 * 2^18) % total
        d3 == (r2 * 2^16) \div total
        r3 == (r2 * 2^16) % total
    IN  RoundEven(<<d0 * 2^18 + d1, d2, d3>>, 0 - s,
                  2 * r3 > total, 2 * r3 = total)

\* x * 100: the float nearest to the product, which has 59 or 60 bits
Times100(x) ==
    LET a3 == x.m[3] * 100
        p3 == a3 % 2^16
        a2 == x.m[2] * 100 + a3 \div 2^16
        p2 == a2 % 2^18
        p1 == x.m[1] * 100 + a2 \div 2^18
        sh == IF p1 >= 2^25 THEN 7 ELSE 6
        low == p3 % 2^sh
        kept == << p1 \div 2^sh,
                   p2 \div 2^sh + (p1 % 2^sh) * 2^(18 - sh),
                   p3 \div 2^sh + (p2 % 2^sh) * 2^(16 - sh) >>
    IN  RoundEven(kept, x.e + sh, low > 2^(sh - 1), low = 2^(sh - 1))

\* int(x) for a float 0 <= x < 2^19: the fraction is dropped
IntOfFloat(x) == IF x.e < 0 THEN 0 ELSE x.m[1] \div 2^(18 - x.e)

\* int((current / total) * 100)
Percent(current, total) == IntOfFloat(Times100(TrueDiv(current, total)))


\* ------------------------------------------------------------ input sets
\* self.motors
Motors == {"X", "Y", "Z", "E", "R", "T"}

\* what the operator may have typed into a speed field
SpeedEntries == {<<>>, <<"x">>, <<"7">>, <<"4", "0">>, <<"-", "2">>, <<" ">>,
                 <<" ", "7">>}

\* what the operator may have typed into a step-count field
StepEntries == {<<>>, <<"z">>, <<"3">>, <<"0">>, <<"-", "1">>, <<"1", "2">>}

\* what the operator may have typed into the servo angle field
AngleEntries == {<<>>, <<"q">>, <<"0">>, <<"9", "0">>, <<"1", "8", "0">>,
                 <<"1", "8", "1">>, <<"-", "5">>}

\* what the G-code editor may hold (toPlainText)
EditorContents ==
    { <<>>,
      <<" ", "\n">>,
      <<" ", "A", " ", "\n", "\n", "B">>,
      <<"A", "\n", "B", "\n", "A">>,
      <<";", "c", "\n", "B", "\n", "(", "\n", "A">> }

\* ------------------------------------------------------------------ state
VARIABLES
    serial_connection,  \* MotorControlUI.serial_connection: 0 (None) or a handle
    is_open,            \* Serial.is_open of every handle created so far
    nHandles,           \* number of serial.Serial objects created
    reader_thread,      \* MotorControlUI.reader_thread: 0 (None) or a handle
    reader,             \* the SerialReaderThread of each handle: pc, running
    gcode_runner,       \* MotorControlUI.gcode_runner: 0 (None) or a runner
    runner,             \* the GCodeRunnerThread objects: fields, position, events
    nRuns,              \* number of GCodeRunnerThread objects created
    gcode_lines,        \* MotorControlUI.gcode_lines
    ui_pc,              \* position of the GUI thread
    ui_op,              \* the handler the GUI thread is in, with its inputs
    ui_queue,           \* lines the handler has still to pass to send_command
    ui_log,             \* send_command calls of the handler: line, success
    ui_report           \* dialogs the handler has shown

vars == <<serial_connection, is_open, nHandles, reader_thread, reader,
          gcode_runner, runner, nRuns, gcode_lines,
          ui_pc, ui_op, ui_queue, ui_log, ui_report>>

connVars == <<serial_connection, is_open, nHandles, reader_thread, reader>>

runVars == <<gcode_runner, runner, nRuns, gcode_lines>>

uiVars == <<ui_pc, ui_op, ui_queue, ui_log, ui_report>>

Handles == 1..MaxHandles

Runs == 1..MaxRuns

NoOp == [name |-> "", motor |-> "", speed |-> <<>>, steps |-> <<>>,
         angle |-> <<>>, text |-> <<>>, current |-> 0, total |-> 0,
         progress |-> 0]

Op(name) == [NoOp EXCEPT !.name = name]

NoReader == [pc |-> "none", running |-> FALSE]

\* wp counts the writes made with the paused flag set since pause() last set
\* it; trace is the
\* sequence of writes attempted and signals emitted, for observation
NoRunner ==
    [pc |-> "none", i |-> 0, running |-> FALSE, paused |-> FALSE,
     lines |-> <<>>, serial |-> 0, total |-> 0, wp |-> 0, trace |-> <<>>]

\* MotorControlUI.__init__
Init ==
    /\ serial_connection = 0
    /\ is_open = [h \in Handles |-> FALSE]
    /\ nHandles = 0
    /\ reader_thread = 0
    /\ reader = [h \in Handles |-> NoReader]
    /\ gcode_runner = 0
    /\ runner = [r \in Runs |-> NoRunner]
    /\ nRuns = 0
    /\ gcode_lines = <<>>
    /\ ui_pc = "idle"
    /\ ui_op = NoOp
    /\ ui_queue = <<>>
    /\ ui_log = <<>>
    /\ ui_report = <<>>

\* serial_connection and serial_connection.is_open
Connected == serial_connection # 0 /\ is_open[serial_connection]

\* QThread.isRunning(): from start() until run() has returned
IsRunning(r) == runner[r].pc \notin {"none", "done"}

\* the handler returns to the event loop with what it reported
Return(op, report) ==
    /\ ui_pc' = "ret"
    /\ ui_op' = op
    /\ ui_report' = report

\* the event loop takes the next event
UiReturn ==
    /\ ui_pc = "ret"
    /\ ui_pc' = "idle"
    /\ ui_op' = NoOp
    /\ ui_queue' = <<>>
    /\ ui_log' = <<>>
    /\ ui_report' = <<>>
    /\ UNCHANGED <<connVars, runVars>>

\* mutant: connect_to_arduino is run whether or not a connection is held
ConnectOkAlways ==
    /\ ui_pc = "idle"
    /\ nHandles < MaxHandles
    /\ LET h == nHandles + 1
       IN  /\ nHandles' = h
           /\ is_open' = [is_open EXCEPT ![h] = TRUE]
           /\ serial_connection' = h
           /\ reader_thread' = h
           /\ reader' = [reader EXCEPT ![h] = [pc |-> "loop", running |-> TRUE]]
    /\ Return(Op("connect"), <<"Connected">>)
    /\ UNCHANGED <<runVars, ui_queue, ui_log>>

\* ------------------------------------------- Serial Link: connect, listener
\* connect_to_arduino, reached from toggle_connection when not connected
ConnectOk ==
    /\ ui_pc = "idle"
    /\ ~Connected
    /\ nHandles < MaxHandles
    /\ LET h == nHandles + 1
       IN  /\ nHandles' = h
           /\ is_open' = [is_open EXCEPT ![h] = TRUE]
           /\ serial_connection' = h
           /\ reader_thread' = h
           /\ reader' = [reader EXCEPT ![h] = [pc |-> "loop", running |-> TRUE]]
    /\ Return(Op("connect"), <<"Connected">>)
    /\ UNCHANGED <<runVars, ui_queue, ui_log>>

\* connect_to_arduino with no port listed, or serial.Serial raising
ConnectFail(why) ==
    /\ ui_pc = "idle"
    /\ ~Connected
    /\ serial_connection' = 0
    /\ Return(Op("connect"), <<why>>)
    /\ UNCHANGED <<is_open, nHandles, reader_thread, reader, runVars,
                   ui_queue, ui_log>>

\* SerialReaderThread.run: the loop condition is false, run returns
ReaderExit(h) ==
    /\ reader[h].pc = "loop"
    /\ ~(reader[h].running /\ is_open[h])
    /\ reader' = [reader EXCEPT ![h].pc = "done"]
    /\ UNCHANGED <<serial_connection, is_open, nHandles, reader_thread,
                   runVars, uiVars>>

\* mutant: the except branch closes the port before it breaks
ReaderErrorCloses(h) ==
    /\ reader[h].pc = "loop"
    /\ reader[h].running /\ is_open[h]
    /\ reader' = [reader EXCEPT ![h].pc = "done"]
    /\ is_open' = [is_open EXCEPT ![h] = FALSE]
    /\ UNCHANGED <<serial_connection, nHandles, reader_thread,
                   runVars, uiVars>>

\* SerialReaderThread.run: in_waiting or readline raises, the loop breaks
ReaderError(h) ==
    /\ reader[h].pc = "loop"
    /\ reader[h].running /\ is_open[h]
    /\ reader' = [reader EXCEPT ![h].pc = "done"]
    /\ UNCHANGED <<serial_connection, is_open, nHandles, reader_thread,
                   runVars, uiVars>>

\* disconnect_from_arduino up to reader_thread.wait()
DisconnectEnter(op) ==
    /\ reader' = IF reader_thread # 0
                 THEN [reader EXCEPT ![reader_thread].running = FALSE]
                 ELSE reader
    /\ ui_pc' = "disc_wait"
    /\ ui_op' = op
    /\ UNCHANGED <<serial_connection, is_open, nHandles, reader_thread,
                   ui_queue, ui_log, ui_report>>

\* toggle_connection while connected
Disconnect ==
    /\ ui_pc = "idle"
    /\ Connected
    /\ DisconnectEnter(Op("disconnect"))
    /\ UNCHANGED runVars

\* mutant: stop() without wait(), the handler goes on at once
DisconnectFinishNoJoin ==
    /\ ui_pc = "disc_wait"
    /\ reader_thread' = 0
    /\ is_open' = IF Connected
                  THEN [is_open EXCEPT ![serial_connection] = FALSE]
                  ELSE is_open
    /\ serial_connection' = 0
    /\ ui_pc' = IF ui_op.name = "closeEvent" THEN "closed" ELSE "ret"
    /\ ui_report' = <<"Disconnected">>
    /\ UNCHANGED <<nHandles, reader, runVars, ui_op, ui_queue, ui_log>>

\* disconnect_from_arduino from the return of wait() to its end
DisconnectFinish ==
    /\ ui_pc = "disc_wait"
    /\ reader_thread # 0 => reader[reader_thread].pc = "done"
    /\ reader_thread' = 0
    /\ is_open' = IF Connected
                  THEN [is_open EXCEPT ![serial_connection] = FALSE]
                  ELSE is_open
    /\ serial_connection' = 0
    /\ ui_pc' = IF ui_op.name = "closeEvent" THEN "closed" ELSE "ret"
    /\ ui_report' = <<"Disconnected">>
    /\ UNCHANGED <<nHandles, reader, runVars, ui_op, ui_queue, ui_log>>

\* ---------------------------------------------------------- Program Runner
\* line.startswith(';') or line.startswith('('), or the line is empty
Skipped(line) == line = <<>> \/ Head(line) \in {";", "("}

\* one entry of a runner's trace
Ev(ev, n, total, line) ==
    [ev |-> ev, n |-> n, total |-> total, line |-> line,
     ok |-> TRUE, open |-> TRUE, running |-> TRUE, paused |-> FALSE,
     why |-> "", mid |-> FALSE]

\* the GUI thread is inside a motor or servo handler, between two of its calls
\* of send_command, the earlier one having written its line
MidSequence == ui_pc = "send" /\ ui_log # <<>> /\ ui_log[Len(ui_log)].ok

\* serial_connection.write(...) by runner r: what it wrote or failed to write,
\* with the flags as they stand at the call
WriteEv(r, line, ok, why) ==
    [Ev("write", runner[r].i + 1, 0, line)
       EXCEPT !.ok = ok, !.open = is_open[runner[r].serial],
              !.running = runner[r].running, !.paused = runner[r].paused,
              !.why = why, !.mid = MidSequence]

\* self.gcode_lines of runner r: the list object handed to __init__
RunnerLines(r) == runner[r].lines

\* for i, line in enumerate(...): if not self.running: break
RunnerL61(r) ==
    /\ runner[r].pc = "L61"
    /\ runner' = [runner EXCEPT ![r].pc =
                     IF runner[r].i >= Len(RunnerLines(r)) THEN "L88"
                     ELSE IF ~runner[r].running THEN "L88"
                     ELSE "L66"]
    /\ UNCHANGED <<connVars, gcode_runner, nRuns, gcode_lines, uiVars>>

\* mutant: the pause check is missing
RunnerL66NoPause(r) ==
    /\ runner[r].pc = "L66"
    /\ runner' = [runner EXCEPT ![r].pc = "L69"]
    /\ UNCHANGED <<connVars, gcode_runner, nRuns, gcode_lines, uiVars>>

\* mutant: the pause loop polls the paused flag only
RunnerL66PausedOnly(r) ==
    /\ runner[r].pc = "L66"
    /\ ~runner[r].paused
    /\ runner' = [runner EXCEPT ![r].pc = "L69"]
    /\ UNCHANGED <<connVars, gcode_runner, nRuns, gcode_lines, uiVars>>

\* while self.paused and self.running: msleep(100) -- leaves the loop
RunnerL66(r) ==
    /\ runner[r].pc = "L66"
    /\ ~(runner[r].paused /\ runner[r].running)
    /\ runner' = [runner EXCEPT ![r].pc = "L69"]
    /\ UNCHANGED <<connVars, gcode_runner, nRuns, gcode_lines, uiVars>>

\* if not self.running: break
RunnerL69(r) ==
    /\ runner[r].pc = "L69"
    /\ runner' = [runner EXCEPT ![r].pc =
                     IF ~runner[r].running THEN "L88" ELSE "L72"]
    /\ UNCHANGED <<connVars, gcode_runner, nRuns, gcode_lines, uiVars>>

\* mutant: a skipped line is passed over without a progress signal
RunnerSkipSilent(r) ==
    /\ runner[r].pc = "L72"
    /\ Skipped(Strip(RunnerLines(r)[runner[r].i + 1]))
    /\ runner' = [runner EXCEPT ![r].i = @ + 1, ![r].pc = "L61"]
    /\ UNCHANGED <<connVars, gcode_runner, nRuns, gcode_lines, uiVars>>

\* a blank or comment line: progress.emit(i + 1, total_lines); continue
RunnerSkip(r) ==
    /\ runner[r].pc = "L72"
    /\ Skipped(Strip(RunnerLines(r)[runner[r].i + 1]))
    /\ runner' = [runner EXCEPT
                     ![r].trace = Append(@, Ev("progress", runner[r].i + 1,
                                               runner[r].total, <<>>)),
                     ![r].i = @ + 1,
                     ![r].pc = "L61"]
    /\ UNCHANGED <<connVars, gcode_runner, nRuns, gcode_lines, uiVars>>

\* serial_connection.write(line + "\n") returns
RunnerWriteOk(r) ==
    /\ runner[r].pc = "L72"
    /\ ~Skipped(Strip(RunnerLines(r)[runner[r].i + 1]))
    /\ is_open[runner[r].serial]
    /\ runner' = [runner EXCEPT
                     ![r].trace = Append(@,
                         WriteEv(r, Strip(RunnerLines(r)[runner[r].i + 1]),
                                 TRUE, "")),
                     ![r].wp = IF runner[r].paused THEN @ + 1 ELSE @,
                     ![r].pc = "L82"]
    /\ UNCHANGED <<connVars, gcode_runner, nRuns, gcode_lines, uiVars>>

\* mutant: the except branch reports the error and goes on with the next line
RunnerWriteFailContinue(r) ==
    /\ runner[r].pc = "L72"
    /\ ~Skipped(Strip(RunnerLines(r)[runner[r].i + 1]))
    /\ LET why == IF is_open[runner[r].serial] THEN "timeout" ELSE "closed"
       IN  runner' = [runner EXCEPT
                        ![r].trace = @ \o
                            << WriteEv(r, Strip(RunnerLines(r)[runner[r].i + 1]),
                                       FALSE, why),
                               [Ev("error", runner[r].i + 1, 0, <<>>)
                                  EXCEPT !.why = why] >>,
                        ![r].i = @ + 1,
                        ![r].pc = "L61"]
    /\ UNCHANGED <<connVars, gcode_runner, nRuns, gcode_lines, uiVars>>

\* serial_connection.write raises (port closed, or write timeout / OS error):
\* error.emit("Satir i+1 gonderilemedi: ..."); break
RunnerWriteFail(r) ==
    /\ runner[r].pc = "L72"
    /\ ~Skipped(Strip(RunnerLines(r)[runner[r].i + 1]))
    /\ LET why == IF is_open[runner[r].serial] THEN "timeout" ELSE "closed"
       IN  runner' = [runner EXCEPT
                        ![r].trace = @ \o
                            << WriteEv(r, Strip(RunnerLines(r)[runner[r].i + 1]),
                                       FALSE, why),
                               [Ev("error", runner[r].i + 1, 0, <<>>)
                                  EXCEPT !.why = why] >>,
                        ![r].pc = "L88"]
    /\ UNCHANGED <<connVars, gcode_runner, nRuns, gcode_lines, uiVars>>

\* mutant: the loop index advances by two
RunnerL82Skip(r) ==
    /\ runner[r].pc = "L82"
    /\ runner' = [runner EXCEPT
                     ![r].trace = Append(@, Ev("progress", runner[r].i + 1,
                                               runner[r].total, <<>>)),
                     ![r].i = @ + 2,
                     ![r].pc = "L61"]
    /\ UNCHANGED <<connVars, gcode_runner, nRuns, gcode_lines, uiVars>>

\* mutant: progress reports the 0-based index
RunnerL82ZeroBased(r) ==
    /\ runner[r].pc = "L82"
    /\ runner' = [runner EXCEPT
                     ![r].trace = Append(@, Ev("progress", runner[r].i,
                                               runner[r].total, <<>>)),
                     ![r].i = @ + 1,
                     ![r].pc = "L61"]
    /\ UNCHANGED <<connVars, gcode_runner, nRuns, gcode_lines, uiVars>>

\* msleep(50); progress.emit(i + 1, total_lines); next iteration
RunnerL82(r) ==
    /\ runner[r].pc = "L82"
    /\ runner' = [runner EXCEPT
                     ![r].trace = Append(@, Ev("progress", runner[r].i + 1,
                                               runner[r].total, <<>>)),
                     ![r].i = @ + 1,
                     ![r].pc = "L61"]
    /\ UNCHANGED <<connVars, gcode_runner, nRuns, gcode_lines, uiVars>>

\* self.finished.emit(); run returns
RunnerL88(r) ==
    /\ runner[r].pc = "L88"
    /\ runner' = [runner EXCEPT
                     ![r].trace = Append(@, Ev("finished", 0, 0, <<>>)),
                     ![r].pc = "done"]
    /\ UNCHANGED <<connVars, gcode_runner, nRuns, gcode_lines, uiVars>>

\* if self.gcode_runner and self.gcode_runner.isRunning(), in pause_gcode,
\* stop_gcode and closeEvent
RunnerActive == gcode_runner # 0 /\ IsRunning(gcode_runner)

\* mutant: a paused runner does not count as running
AlreadyRunningUnlessPaused ==
    gcode_runner # 0 /\ IsRunning(gcode_runner) /\ ~runner[gcode_runner].paused

\* if self.gcode_runner and self.gcode_runner.isRunning(), in run_gcode
AlreadyRunning == gcode_runner # 0 /\ IsRunning(gcode_runner)

\* mutant: the thread object of the previous run is started again with the new
\* lines, its flags as stop() and pause() left them
NewRunnerKeepsFlags(lines) ==
    [NoRunner EXCEPT !.pc = "L61", !.lines = lines,
                     !.serial = serial_connection, !.total = Len(lines),
                     !.running = IF gcode_runner = 0 THEN TRUE
                                 ELSE runner[gcode_runner].running,
                     !.paused = IF gcode_runner = 0 THEN FALSE
                                ELSE runner[gcode_runner].paused]

\* GCodeRunnerThread(self.serial_connection, self.gcode_lines) and start():
\* total_lines = len(self.gcode_lines) is the first statement of run
NewRunner(lines) ==
    [NoRunner EXCEPT !.pc = "L61", !.running = TRUE, !.lines = lines,
                     !.serial = serial_connection, !.total = Len(lines)]

\* self.gcode_runner is rebound: the thread object it named, if its run has
\* returned, is no longer referenced and is destroyed
Released(r) == IF runner[r].pc = "done" THEN NoRunner ELSE runner[r]

\* run_gcode
RunGcode(content) ==
    /\ ui_pc = "idle"
    /\ LET lines == StrippedNonEmpty(SplitLines(content))
           op == [Op("run_gcode") EXCEPT !.text = content]
       IN  IF ~Connected
           THEN /\ Return(op, <<"NotConnected">>)
                /\ UNCHANGED runVars
           ELSE IF Strip(content) = <<>>
           THEN /\ Return(op, <<"EmptyEditor">>)
                /\ UNCHANGED runVars
           ELSE IF lines = <<>>
           THEN /\ Return(op, <<"NoValidLine">>)
                /\ gcode_lines' = lines
                /\ UNCHANGED <<gcode_runner, runner, nRuns>>
           ELSE IF AlreadyRunning
           THEN /\ Return(op, <<"AlreadyRunning">>)
                /\ gcode_lines' = lines
                /\ UNCHANGED <<gcode_runner, runner, nRuns>>
           ELSE /\ nRuns < MaxRuns
                /\ Return(op, <<"Started">>)
                /\ gcode_lines' = lines
                /\ nRuns' = nRuns + 1
                /\ gcode_runner' = nRuns + 1
                /\ runner' = [r \in Runs |->
                                 IF r = nRuns + 1 THEN NewRunner(lines)
                                 ELSE Released(r)]
    /\ UNCHANGED <<connVars, ui_queue, ui_log>>

\* pause_gcode: resume() when paused, pause() otherwise
PauseGcode ==
    /\ ui_pc = "idle"
    /\ IF RunnerActive
       THEN IF runner[gcode_runner].paused
            THEN /\ runner' = [runner EXCEPT ![gcode_runner].paused = FALSE,
                                             ![gcode_runner].wp = 0]
                 /\ Return(Op("pause_gcode"), <<"Resumed">>)
            ELSE /\ runner' = [runner EXCEPT ![gcode_runner].paused = TRUE,
                                             ![gcode_runner].wp = 0]
                 /\ Return(Op("pause_gcode"), <<"Paused">>)
       ELSE /\ runner' = runner
            /\ Return(Op("pause_gcode"), <<>>)
    /\ UNCHANGED <<connVars, gcode_runner, nRuns, gcode_lines, ui_queue, ui_log>>

\* stop_gcode up to gcode_runner.wait()
StopGcode ==
    /\ ui_pc = "idle"
    /\ IF RunnerActive
       THEN /\ runner' = [runner EXCEPT ![gcode_runner].running = FALSE]
            /\ ui_pc' = "stop_wait"
            /\ ui_op' = Op("stop_gcode")
            /\ ui_report' = ui_report
       ELSE /\ runner' = runner
            /\ Return(Op("stop_gcode"), <<>>)
    /\ UNCHANGED <<connVars, gcode_runner, nRuns, gcode_lines, ui_queue, ui_log>>

\* stop_gcode from the return of wait(): on_gcode_finished(), then the
\* "G-code durduruldu" box
StopGcodeFinish ==
    /\ ui_pc = "stop_wait"
    /\ ~IsRunning(gcode_runner)
    /\ Return(ui_op, <<"Completed", "Stopped">>)
    /\ UNCHANGED <<connVars, runVars, ui_queue, ui_log>>

\* closeEvent: stop the runner if it is running, then wait for it
CloseEvent ==
    /\ ui_pc = "idle"
    /\ IF RunnerActive
       THEN /\ runner' = [runner EXCEPT ![gcode_runner].running = FALSE]
            /\ ui_pc' = "close_wait"
            /\ ui_op' = Op("closeEvent")
            /\ UNCHANGED <<connVars, ui_report>>
       ELSE /\ runner' = runner
            /\ DisconnectEnter(Op("closeEvent"))
    /\ UNCHANGED <<gcode_runner, nRuns, gcode_lines, ui_queue, ui_log>>

\* closeEvent from the return of gcode_runner.wait(): disconnect_from_arduino
CloseEventWaited ==
    /\ ui_pc = "close_wait"
    /\ ~IsRunning(gcode_runner)
    /\ DisconnectEnter(ui_op)
    /\ UNCHANGED runVars

\* ------------------------------------------------ motor and servo commands
\* mutant: a step count of zero is sent as a count
MoveLineNonNegative(fwd, steps) ==
    LET st == ParseInt(steps)
    IN  IF steps # <<>> /\ st.ok /\ st.val >= 0
        THEN (IF fwd THEN <<"m", "=">> ELSE <<"n", "=">>) \o FormatInt(st.val)
        ELSE (IF fwd THEN <<"a">> ELSE <<"d">>)

\* the third line of move_forward / move_backward, from the step-count field
MoveLine(fwd, steps) ==
    LET st == ParseInt(steps)
    IN  IF steps # <<>> /\ st.ok /\ st.val > 0
        THEN (IF fwd THEN <<"m", "=">> ELSE <<"n", "=">>) \o FormatInt(st.val)
        ELSE (IF fwd THEN <<"a">> ELSE <<"d">>)

\* move_forward / move_backward after check_connection: the lines passed to
\* send_command, in order, and whether the speed was refused
MovePlan(fwd, motor, speed, steps) ==
    LET axis == <<Lower(motor)>>
        sp == ParseInt(speed)
    IN  IF speed # <<>> /\ ~sp.ok
        THEN [lines |-> <<axis>>, invalid |-> TRUE]
        ELSE [lines |-> <<axis>>
                        \o (IF speed # <<>>
                            THEN << <<"v", "=">> \o FormatInt(sp.val) >>
                            ELSE <<>>)
                        \o <<MoveLine(fwd, steps)>>,
              invalid |-> FALSE]

\* stop_motor after check_connection
StopPlan(motor) == [lines |-> << <<Lower(motor)>>, <<"w">> >>, invalid |-> FALSE]

\* mutant: the upper end of the range is refused
ServoPlanBelow180(angle) ==
    LET a == ParseInt(angle)
    IN  IF angle = <<>> \/ ~a.ok \/ a.val < 0 \/ a.val >= 180
        THEN [lines |-> <<>>, invalid |-> TRUE]
        ELSE [lines |-> << <<"s">>, <<"p", "=">> \o FormatInt(a.val) >>,
              invalid |-> FALSE]

\* set_servo_angle after check_connection
ServoPlan(angle) ==
    LET a == ParseInt(angle)
    IN  IF angle = <<>> \/ ~a.ok \/ a.val < 0 \/ a.val > 180
        THEN [lines |-> <<>>, invalid |-> TRUE]
        ELSE [lines |-> << <<"s">>, <<"p", "=">> \o FormatInt(a.val) >>,
              invalid |-> FALSE]

Plan(op) ==
    CASE op.name = "move_forward" -> MovePlan(TRUE, op.motor, op.speed, op.steps)
      [] op.name = "move_backward" -> MovePlan(FALSE, op.motor, op.speed, op.steps)
      [] op.name = "stop_motor" -> StopPlan(op.motor)
      [] op.name = "set_servo_angle" -> ServoPlan(op.angle)
      [] OTHER -> [lines |-> <<>>, invalid |-> FALSE]

\* mutant: the handler does not call check_connection
CommandUnchecked(op) ==
    /\ ui_pc = "idle"
    /\ ui_op' = op
    /\ ui_queue' = Plan(op).lines
    /\ ui_pc' = IF Plan(op).lines = <<>> THEN "ret" ELSE "send"
    /\ ui_report' = IF Plan(op).lines = <<>> /\ Plan(op).invalid
                    THEN <<"InvalidInput">> ELSE <<>>
    /\ UNCHANGED <<connVars, runVars, ui_log>>

\* a motor or servo handler starts: check_connection, then the first send
Command(op) ==
    /\ ui_pc = "idle"
    /\ ui_op' = op
    /\ IF ~Connected
       THEN /\ ui_pc' = "ret"
            /\ ui_queue' = <<>>
            /\ ui_report' = <<"NotConnected">>
       ELSE /\ ui_queue' = Plan(op).lines
            /\ ui_pc' = IF Plan(op).lines = <<>> THEN "ret" ELSE "send"
            /\ ui_report' = IF Plan(op).lines = <<>> /\ Plan(op).invalid
                            THEN <<"InvalidInput">> ELSE <<>>
    /\ UNCHANGED <<connVars, runVars, ui_log>>

MoveForward(motor, speed, steps) ==
    Command([NoOp EXCEPT !.name = "move_forward", !.motor = motor,
                         !.speed = speed, !.steps = steps])

MoveBackward(motor, speed, steps) ==
    Command([NoOp EXCEPT !.name = "move_backward", !.motor = motor,
                         !.speed = speed, !.steps = steps])

StopMotor(motor) ==
    Command([NoOp EXCEPT !.name = "stop_motor", !.motor = motor])

SetServoAngle(angle) ==
    Command([NoOp EXCEPT !.name = "set_servo_angle", !.angle = angle])

\* send_command(line): without an open connection it returns False before
\* any write; otherwise the write returns (ok) or raises (~ok).  Then the
\* handler's statements up to its next send_command or its return; the
\* handlers do not look at what send_command returns
SendCommand(ok) ==
    /\ ui_pc = "send"
    /\ ui_queue # <<>>
    /\ ok => Connected
    /\ ui_log' = IF Connected
                 THEN Append(ui_log, [line |-> Head(ui_queue), ok |-> ok])
                 ELSE ui_log
    /\ LET rest == Tail(ui_queue)
       IN  /\ ui_queue' = rest
           /\ ui_pc' = IF rest = <<>> THEN "ret" ELSE "send"
           /\ ui_report' = ui_report
                  \o (IF ~Connected THEN <<"NotConnected">>
                      ELSE IF ok THEN <<>> ELSE <<"WriteError">>)
                  \o (IF rest = <<>> /\ Plan(ui_op).invalid
                      THEN <<"InvalidInput">> ELSE <<>>)
    /\ UNCHANGED <<connVars, runVars, ui_op>>

SendOk == SendCommand(TRUE)

SendFail == SendCommand(FALSE)

\* ---------------------------------------------------------- specification
RunnerStep(r) ==
    \/ RunnerL61(r)
    \/ RunnerL66(r)
    \/ RunnerL69(r)
    \/ RunnerSkip(r)
    \/ RunnerWriteOk(r)
    \/ RunnerWriteFail(r)
    \/ RunnerL82(r)
    \/ RunnerL88(r)

Next ==
    \/ UiReturn
    \/ ConnectOk
    \/ \E why \in {"NoPort", "ConnectionError"} : ConnectFail(why)
    \/ \E h \in Handles : ReaderExit(h)
    \/ \E h \in Handles : ReaderError(h)
    \/ Disconnect
    \/ DisconnectFinish
    \/ \E c \in EditorContents : RunGcode(c)
    \/ PauseGcode
    \/ StopGcode
    \/ StopGcodeFinish
    \/ CloseEvent
    \/ CloseEventWaited
    \/ \E r \in Runs : RunnerStep(r)

\* the connection, the listener and the program runner
Spec == Init /\ [][Next]_vars

NextCmd ==
    \/ UiReturn
    \/ ConnectOk
    \/ \E why \in {"NoPort", "ConnectionError"} : ConnectFail(why)
    \/ \E h \in Handles : ReaderExit(h)
    \/ \E h \in Handles : ReaderError(h)
    \/ Disconnect
    \/ DisconnectFinish
    \/ \E m \in Motors, sp \in SpeedEntries, st \in StepEntries :
          MoveForward(m, sp, st)
    \/ \E m \in Motors, sp \in SpeedEntries, st \in StepEntries :
          MoveBackward(m, sp, st)
    \/ \E m \in Motors : StopMotor(m)
    \/ \E a \in AngleEntries : SetServoAngle(a)
    \/ SendOk
    \/ SendFail

\* the connection, the listener and the motor and servo commands
SpecCmd == Init /\ [][NextCmd]_vars

\* on_gcode_progress(current, total): the slot of the runner's progress signal
OnGcodeProgress(current, total) ==
    /\ ui_pc = "idle"
    /\ total > 0
    /\ Return([Op("on_gcode_progress") EXCEPT
                  !.current = current, !.total = total,
                  !.progress = Percent(current, total)],
              <<"Progress">>)
    /\ UNCHANGED <<connVars, runVars, ui_queue, ui_log>>

NextProgress ==
    \/ UiReturn
    \/ \E total \in 1..MaxTotal : \E current \in 1..total :
          OnGcodeProgress(current, total)

\* the progress slot on the progress events (current, total) of programs of
\* up to MaxTotal lines
SpecProgress == Init /\ [][NextProgress]_vars

\* entries for the commands given while a program may be running
MixMotors == {"X"}
MixSpeeds == {<<"7">>, <<"x">>}
MixSteps == {<<>>, <<"3">>}
MixAngles == {<<"9", "0">>, <<"q">>}
MixContents == {<<>>, <<"A", "\n", ";", "\n", "B">>}

NextMix ==
    \/ UiReturn
    \/ ConnectOk
    \/ \E h \in Handles : ReaderExit(h)
    \/ \E h \in Handles : ReaderError(h)
    \/ Disconnect
    \/ DisconnectFinish
    \/ \E c \in MixContents : RunGcode(c)
    \/ \E r \in Runs : RunnerStep(r)
    \/ \E m \in MixMotors, sp \in MixSpeeds, st \in MixSteps :
          MoveForward(m, sp, st)
    \/ \E m \in MixMotors, sp \in MixSpeeds, st \in MixSteps :
          MoveBackward(m, sp, st)
    \/ \E m \in MixMotors : StopMotor(m)
    \/ \E a \in MixAngles : SetServoAngle(a)
    \/ SendOk
    \/ SendFail

\* the connection, the program runner and the commands given during a run
SpecMix == Init /\ [][NextMix]_vars

NextFair ==
    \/ UiReturn
    \/ ConnectOk
    \/ \E h \in Handles : ReaderExit(h)
    \/ \E h \in Handles : ReaderError(h)
    \/ Disconnect
    \/ DisconnectFinish
    \/ \E c \in MixContents : RunGcode(c)
    \/ PauseGcode
    \/ StopGcode
    \/ StopGcodeFinish
    \/ CloseEvent
    \/ CloseEventWaited
    \/ \E r \in Runs : RunnerStep(r)

\* the connection and the program runner under fair scheduling: a runner
\* thread that can take a step takes one (its sleeps and its write, which has
\* a timeout, all return), and QThread.wait() returns once the thread it
\* waits for has ended
SpecFair ==
    /\ Init /\ [][NextFair]_vars
    /\ \A r \in Runs : WF_vars(RunnerStep(r))
    /\ WF_vars(StopGcodeFinish)
    /\ WF_vars(CloseEventWaited)

\* ------------------------------------------------------- reading a trace
IsWrite(e) == e.ev = "write"

IsFailedWrite(e) == e.ev = "write" /\ ~e.ok

IsWriteAfterStop(e) == e.ev = "write" /\ ~e.running

\* a line that is neither blank nor a comment
IsCommandLine(l) == l # <<>> /\ l[1] # ";" /\ l[1] # "("

Writes(r) == SelectSeq(runner[r].trace, IsWrite)

LinesOf(t) == [k \in 1..Len(t) |-> t[k].line]

Emitted(r, ev) == \E k \in 1..Len(runner[r].trace) : runner[r].trace[k].ev = ev

NoFailedWrite(r) == SelectSeq(runner[r].trace, IsFailedWrite) = <<>>

AllCommands(r) ==
    \A k \in 1..Len(runner[r].lines) : IsCommandLine(runner[r].lines[k])

Started(r) == runner[r].pc # "none"

\* stop() was called on runner r (nothing sets running back)
StopRequested(r) == Started(r) /\ ~runner[r].running

\* run() of runner r has returned, no stop() was called and no write failed
RanToEnd(r) == runner[r].pc = "done" /\ runner[r].running /\ NoFailedWrite(r)

\* ------------------------------------------------------------------ claims

\* C1: a run that stop() cut short (lines were left when it ended) writes at
\* most one line after the stop flag was set, the one in flight, and emits no
\* finished (Completed) notification.  The first half holds; the code emits
\* finished after the break as well, so the statement as a whole is violated.
C1_StoppedRunEmitsNoCompleted ==
    \A r \in Runs :
        StopRequested(r) /\ runner[r].i < Len(runner[r].lines) =>
            /\ Len(SelectSeq(runner[r].trace, IsWriteAfterStop)) <= 1
            /\ ~Emitted(r, "finished")

\* C2 as stated: no write is made while the paused flag is set and no stop
\* has been requested.
C2_NoWriteWhilePaused ==
    \A r \in Runs : \A k \in 1..Len(runner[r].trace) :
        LET e == runner[r].trace[k]
        IN  e.ev = "write" => ~(e.paused /\ e.running)

\* C2 as amended: between pause() setting the flag and the next resume(), at
\* most one line is written, the one whose pause check had already passed;
\* after it the runner stays out of the sending part of the loop until the
\* flag is cleared or stop() is called.
C2_AtMostOneWriteWhilePaused ==
    \A r \in Runs :
        /\ runner[r].wp <= 1
        /\ runner[r].paused /\ runner[r].running /\ runner[r].wp = 1
              => runner[r].pc \notin {"L69", "L72"}

\* C2 witness: a runner suspended at the pause check after its in-flight line
\* was written with the flag already set.
C2_Witness ==
    \E r \in Runs :
        /\ runner[r].paused /\ runner[r].running
        /\ runner[r].pc = "L66"
        /\ runner[r].wp = 1
        /\ runner[r].i < Len(runner[r].lines)

\* C3: a run that is not stopped and has no send failure, however pause and
\* resume interleave with it, has written exactly the non-blank, non-comment
\* lines of its program, in program order, each once, and ended with
\* finished (Completed) and no error.
C3_PauseResumeExactlyOnce ==
    \A r \in Runs :
        RanToEnd(r) =>
            /\ LinesOf(Writes(r)) = SelectSeq(runner[r].lines, IsCommandLine)
            /\ runner[r].trace[Len(runner[r].trace)].ev = "finished"
            /\ ~Emitted(r, "error")

\* C3 witness: a completed run of at least two commands during which pause()
\* and then resume() were called (one write saw the paused flag set).
C3_Witness ==
    \E r \in Runs :
        /\ RanToEnd(r)
        /\ Len(Writes(r)) >= 2
        /\ \E k \in 1..Len(runner[r].trace) :
              runner[r].trace[k].ev = "write" /\ runner[r].trace[k].paused
        /\ ~runner[r].paused

\* what C4 asks of every step
C4_Step ==
    /\ (ui_pc = "idle" /\ ui_op'.name = "run_gcode" /\ RunnerActive) =>
          /\ ui_report' \in {<<"AlreadyRunning">>, <<"NotConnected">>,
                             <<"EmptyEditor">>}
          /\ Connected /\ ui_op'.text \notin {<<>>, <<" ", "\n">>}
                => ui_report' = <<"AlreadyRunning">>
          /\ runner' = runner
          /\ gcode_runner' = gcode_runner
          /\ nRuns' = nRuns
    /\ Cardinality({r \in Runs : IsRunning(r)'}) <= 1
    /\ \A r \in Runs : \A k \in 1..Len(runner'[r].trace) :
          LET e == runner'[r].trace[k]
          IN  e.ev = "write" => e.line = runner'[r].lines[e.n]

\* C4: a run_gcode issued while the runner is running or paused creates no
\* runner and changes none: it is refused with AlreadyRunning (or, with no
\* connection or nothing in the editor, with the refusal for that, which
\* run_gcode tests first); at most one runner is ever active,
\* and every line a runner writes is the line of its own program at that
\* index.
C4_SecondStartRejected == [][C4_Step]_vars

\* C4 witness: a second, different program was refused with AlreadyRunning
\* while the first run is in the middle of its lines.
C4_Witness ==
    /\ ui_pc = "ret" /\ ui_op.name = "run_gcode"
    /\ ui_report = <<"AlreadyRunning">>
    /\ RunnerActive
    /\ gcode_lines # runner[gcode_runner].lines
    /\ runner[gcode_runner].i >= 1
    /\ runner[gcode_runner].pc = "L72"

\* C5: in a program without blank or comment lines, if the write of line k
\* fails then exactly k writes were attempted, an error notification carrying
\* line number k and the write's error was emitted, and no line after k is
\* written.
C5_FailureAtLineK ==
    \A r \in Runs : \A j \in 1..Len(runner[r].trace) :
        LET t == runner[r].trace
            e == t[j]
        IN  AllCommands(r) /\ IsFailedWrite(e) =>
                /\ Len(Writes(r)) = e.n
                /\ \E m \in 1..Len(t) :
                      t[m].ev = "error" /\ t[m].n = e.n /\ t[m].why = e.why
                /\ \A m \in 1..Len(t) : t[m].ev = "write" => t[m].n <= e.n

\* C5 witness: the write of line 2 of a 3-line program failed and the run has
\* returned.
C5_Witness ==
    \E r \in Runs :
        /\ AllCommands(r) /\ Len(runner[r].lines) = 3
        /\ runner[r].pc = "done"
        /\ \E j \in 1..Len(runner[r].trace) :
              IsFailedWrite(runner[r].trace[j]) /\ runner[r].trace[j].n = 2

\* C6: a running runner's connection is open (the handle is closed only after
\* the runner has exited), no runner write is attempted on a closed handle,
\* and no run fails because the port was closed under it.  Violated:
\* disconnect_from_arduino does not stop the runner.
C6_RunnerExitsBeforeClose ==
    \A r \in Runs :
        /\ IsRunning(r) => is_open[runner[r].serial]
        /\ \A k \in 1..Len(runner[r].trace) :
              LET e == runner[r].trace[k]
              IN  /\ e.ev = "write" => e.open
                  /\ e.ev = "error" => e.why # "closed"

\* a forward or backward handler that passed check_connection has returned
MoveReturned ==
    /\ ui_pc = "ret"
    /\ ui_op.name \in {"move_forward", "move_backward"}
    /\ ui_report # <<"NotConnected">>

\* C7: a forward or backward command whose speed entry is not an integer has
\* passed no line to send_command and reports InvalidInput.  Violated: the
\* axis-select line is sent before the speed is parsed.
C7_InvalidSpeedSendsNothing ==
    MoveReturned /\ ui_op.speed \in {<<"x">>, <<" ">>} =>
        /\ ui_log = <<>>
        /\ \E k \in 1..Len(ui_report) : ui_report[k] = "InvalidInput"

\* C8: within one handler no line is passed to send_command after a line
\* whose write failed.  Violated: the handlers ignore what send_command
\* returns.
C8_NoSendAfterFailedLine ==
    \A k \in 1..Len(ui_log) : ~ui_log[k].ok => k = Len(ui_log)

\* the lines the claim expects for the entries of the model
C9_AxisLine ==
    [m \in Motors |->
        CASE m = "X" -> <<"x">> [] m = "Y" -> <<"y">> [] m = "Z" -> <<"z">>
          [] m = "E" -> <<"e">> [] m = "R" -> <<"r">> [] m = "T" -> <<"t">>]

C9_SpeedLine(speed) ==
    CASE speed = <<"7">> -> <<"v", "=", "7">>
      [] speed = <<" ", "7">> -> <<"v", "=", "7">>
      [] speed = <<"4", "0">> -> <<"v", "=", "4", "0">>

C9_MoveLine(name, steps) ==
    CASE steps = <<"3">> ->
            IF name = "move_forward" THEN <<"m", "=", "3">> ELSE <<"n", "=", "3">>
      [] steps = <<"1", "2">> ->
            IF name = "move_forward" THEN <<"m", "=", "1", "2">>
            ELSE <<"n", "=", "1", "2">>
      [] OTHER -> IF name = "move_forward" THEN <<"a">> ELSE <<"d">>

\* C9: with an integer speed v > 0, forward passes to send_command exactly
\* the axis letter in lower case, v=<v>, then m=<n> for an integer step entry
\* n > 0 and a otherwise; backward the same with n=<n> and d.
C9_MoveSequence ==
    MoveReturned /\ ui_op.speed \in {<<"7">>, <<" ", "7">>, <<"4", "0">>} =>
        LinesOf(ui_log) = << C9_AxisLine[ui_op.motor],
                             C9_SpeedLine(ui_op.speed),
                             C9_MoveLine(ui_op.name, ui_op.steps) >>

\* C9 witness: backward on axis T with speed 40 and 12 steps has written its
\* three lines.
C9_Witness ==
    /\ MoveReturned
    /\ ui_op.name = "move_backward" /\ ui_op.motor = "T"
    /\ ui_op.speed = <<"4", "0">> /\ ui_op.steps = <<"1", "2">>
    /\ Len(ui_log) = 3
    /\ \A k \in 1..3 : ui_log[k].ok

\* C10: a run of N command lines with no failure and no stop is the sequence
\* write 1, progress (1,N), ..., write N, progress (N,N), finished.
C10_TraceOfCleanRun ==
    \A r \in Runs :
        RanToEnd(r) /\ AllCommands(r) =>
            LET t == runner[r].trace
                N == Len(runner[r].lines)
            IN  /\ Len(t) = 2 * N + 1
                /\ \A k \in 1..N :
                      /\ t[2 * k - 1].ev = "write"
                      /\ t[2 * k - 1].n = k
                      /\ t[2 * k - 1].line = runner[r].lines[k]
                      /\ t[2 * k].ev = "progress"
                      /\ t[2 * k].n = k
                      /\ t[2 * k].total = N
                /\ t[2 * N + 1].ev = "finished"

\* C10 witness: a clean run of a 3-line program has returned.
C10_Witness ==
    \E r \in Runs :
        RanToEnd(r) /\ AllCommands(r) /\ Len(runner[r].lines) = 3


\* run_gcode has just started a runner on the text of the editor
RunStarted ==
    ui_pc = "ret" /\ ui_op.name = "run_gcode" /\ ui_report = <<"Started">>

\* the lines of the editor text, each stripped, blank ones included
C11_EditorLines(text) ==
    [k \in 1..Len(SplitLines(text)) |-> Strip(SplitLines(text)[k])]

ProgressAt(r, k) ==
    {j \in 1..Len(runner[r].trace) :
        runner[r].trace[j].ev = "progress" /\ runner[r].trace[j].n = k}

\* C11: every line of the editor text, blank lines included, is in the
\* sequence the runner processes and is counted in the total used for progress.
C11_BlankLinesStay ==
    RunStarted =>
        /\ runner[gcode_runner].lines = C11_EditorLines(ui_op.text)
        /\ runner[gcode_runner].total = Len(C11_EditorLines(ui_op.text))

\* disconnect_from_arduino is entered / returns in this step
DisconnectCalled == ui_pc # "disc_wait" /\ ui_pc' = "disc_wait"
DisconnectReturns == ui_pc = "disc_wait" /\ ui_pc' # "disc_wait"

NothingHeld == ~Connected /\ reader_thread = 0

C12_Step ==
    /\ DisconnectReturns =>
          /\ \A h \in Handles : reader'[h].pc # "loop" /\ ~is_open'[h]
          /\ serial_connection' = 0 /\ reader_thread' = 0
    /\ (DisconnectCalled \/ DisconnectReturns) /\ NothingHeld =>
          UNCHANGED connVars

\* C12: when disconnect returns no listener thread is running and no handle
\* is open; a disconnect made with nothing connected changes nothing of the
\* connection state, neither on entry nor on return.
C12_DisconnectJoinsAndCloses == [][C12_Step]_vars

\* C12 witness: disconnect has returned from a held connection whose listener
\* had to be waited for: the handle is closed and its listener has ended.
C12_Witness ==
    /\ ui_pc = "ret" /\ ui_op.name = "disconnect"
    /\ nHandles = 1 /\ ~is_open[1]
    /\ reader[1] = [pc |-> "done", running |-> FALSE]


LiveListeners == {h \in Handles : reader[h].pc = "loop"}
OpenHandles == {h \in Handles : is_open[h]}

\* C13: at most one serial handle is open and at most one listener thread is
\* running, and a running listener is the one of the held connection.
C13_OneConnectionOneListener ==
    /\ Cardinality(OpenHandles) <= 1
    /\ Cardinality(LiveListeners) <= 1
    /\ \A h \in LiveListeners :
          serial_connection = h /\ reader_thread = h /\ is_open[h]

\* C13 witness: a second connection is held after the first was torn down
\* (a failed connect attempt lies between them or not).
C13_Witness ==
    /\ nHandles = 2
    /\ OpenHandles = {2} /\ LiveListeners = {2}
    /\ reader[1].pc = "done"


\* a servo handler that passed check_connection has returned
ServoReturned ==
    /\ ui_pc = "ret"
    /\ ui_op.name = "set_servo_angle"
    /\ ui_report # <<"NotConnected">>

\* the lines the claim expects for the angle entries of the model
C14_Lines(angle) ==
    CASE angle = <<"0">> -> << <<"s">>, <<"p", "=", "0">> >>
      [] angle = <<"9", "0">> -> << <<"s">>, <<"p", "=", "9", "0">> >>
      [] angle = <<"1", "8", "0">> -> << <<"s">>, <<"p", "=", "1", "8", "0">> >>
      [] OTHER -> <<>>

\* C14: while connected, an angle entry that is an integer p in 0..180 passes
\* to send_command exactly s then p=<p>; an entry out of range, not an
\* integer or empty passes nothing and reports InvalidInput.
C14_ServoAngle ==
    ServoReturned =>
        /\ [k \in 1..Len(ui_log) |-> ui_log[k].line] = C14_Lines(ui_op.angle)
        /\ ui_op.angle \in {<<>>, <<"q">>, <<"1", "8", "1">>, <<"-", "5">>} =>
              ui_report = <<"InvalidInput">>
        /\ ui_op.angle \in {<<"0">>, <<"9", "0">>, <<"1", "8", "0">>} =>
              \A k \in 1..Len(ui_report) : ui_report[k] # "InvalidInput"

\* C14 witness: the angle 180 has been set, both lines written.
C14_Witness ==
    /\ ServoReturned
    /\ ui_op.angle = <<"1", "8", "0">>
    /\ Len(ui_log) = 2 /\ ui_log[1].ok /\ ui_log[2].ok


\* a motor, servo or program-start handler begins in this step
HandlerCalled ==
    /\ ui_pc = "idle"
    /\ ui_op'.name \in {"move_forward", "move_backward", "stop_motor",
                        "set_servo_angle", "run_gcode"}

C15_Step ==
    /\ HandlerCalled /\ ~Connected =>
          /\ ui_pc' = "ret"
          /\ ui_queue' = <<>> /\ ui_log' = <<>>
          /\ ui_report' = <<"NotConnected">>
          /\ UNCHANGED <<connVars, runVars>>
    /\ ui_pc = "send" /\ ~Connected => ui_log' = ui_log

\* C15: with no connection open, a motor, servo or program-start handler
\* returns at once having passed no line to send_command and having started no
\* runner, with the connection and the run state as they were; send_command
\* itself writes nothing without a connection.
C15_NotConnectedSendsNothing == [][C15_Step]_vars

\* C15 witness: a forward command given with no connection, while the runner
\* of an earlier connection is still alive, has returned with nothing sent.
C15_Witness ==
    /\ ui_pc = "ret" /\ ui_op.name = "move_forward"
    /\ ui_report = <<"NotConnected">> /\ ui_log = <<>>
    /\ ~Connected /\ RunnerActive


\* C16: the percentage on_gcode_progress computes for (current, total) with
\* 1 <= current <= total is the floor of 100 * current / total.
C16_PercentIsFloor ==
    ui_pc = "ret" /\ ui_op.name = "on_gcode_progress" =>
        ui_op.progress = (100 * ui_op.current) \div ui_op.total


\* C17: a run in which a write failed emits the error signal as its only
\* terminal signal: the finished signal is not emitted after it.  Violated:
\* the break at line 86 leaves the loop only, and line 88 emits finished.
C17_FailedIsSingleTerminal ==
    \A r \in Runs : \A j \in 1..Len(runner[r].trace) :
        runner[r].trace[j].ev = "error" =>
            \A k \in (j + 1)..Len(runner[r].trace) :
                runner[r].trace[k].ev # "finished"


\* C18: once stop() has been called on a runner its thread ends, whether or
\* not it was paused at that moment, and so the wait in stop_gcode and the
\* wait in closeEvent return.
C18_StoppedRunnerTerminates ==
    /\ \A r \in Runs : StopRequested(r) ~> ~IsRunning(r)
    /\ (ui_pc = "stop_wait") ~> (ui_pc = "ret" /\ ui_op.name = "stop_gcode")
    /\ (ui_pc = "close_wait") ~> (ui_pc = "disc_wait")

\* C18 witness: stop_gcode has returned from its wait for a runner that was
\* paused when it was stopped and was never resumed.
C18_Witness ==
    /\ ui_pc = "ret" /\ ui_op.name = "stop_gcode"
    /\ gcode_runner # 0
    /\ runner[gcode_runner].pc = "done"
    /\ runner[gcode_runner].paused /\ ~runner[gcode_runner].running


\* C19: the runner writes no program line while a motor or servo handler is
\* between two lines of its sequence.  Violated: the handler and the runner
\* write to the one port from two threads with nothing to order them.
C19_NoRunnerLineInsideSequence ==
    \A r \in Runs : \A j \in 1..Len(runner[r].trace) :
        runner[r].trace[j].ev = "write" /\ runner[r].trace[j].ok =>
            ~runner[r].trace[j].mid


IsProgress(e) == e.ev = "progress"

\* the progress signals of runner r, in the order of their emission
ProgressOf(r) == SelectSeq(runner[r].trace, IsProgress)

\* C20: at every moment of every run the progress signals emitted so far are
\* (1,N), (2,N), ..., (j,N) in this order with j <= N, N the number of lines
\* of the program; there is none for a line whose write failed and none after
\* the error or the finished signal.
C20_ProgressIsGaplessPrefix ==
    \A r \in Runs :
        LET t == runner[r].trace
            p == ProgressOf(r)
        IN  /\ Len(p) <= Len(runner[r].lines)
            /\ \A k \in 1..Len(p) :
                  p[k].n = k /\ p[k].total = Len(runner[r].lines)
            /\ \A j \in 1..Len(t) :
                  /\ IsFailedWrite(t[j]) => ProgressAt(r, t[j].n) = {}
                  /\ t[j].ev \in {"error", "finished"} =>
                        \A k \in (j + 1)..Len(t) : t[k].ev # "progress"

\* C20 witness: a run of a 4-line program with comment lines has ended on a
\* failed write of its last line, three progress signals before it.
C20_Witness ==
    \E r \in Runs :
        /\ runner[r].pc = "done"
        /\ Len(runner[r].lines) = 4
        /\ Emitted(r, "error")
        /\ Len(ProgressOf(r)) = 3


\* the listener of handle h ended on an I/O error: it has returned with its
\* running flag still set and its port still open
ListenerDied(h) == reader[h].pc = "done" /\ reader[h].running /\ is_open[h]

\* the listener of handle h ends in this step although its running flag is set
\* and its port is open: an I/O error made it leave its loop
ListenerDies(h) ==
    /\ reader[h].pc = "loop" /\ reader[h].running /\ is_open[h]
    /\ reader'[h].pc = "done"

C21_Step ==
    \A h \in Handles :
        ListenerDies(h) =>
            /\ is_open'[h]
            /\ UNCHANGED <<serial_connection, is_open, nHandles, reader_thread,
                           runVars, uiVars>>

\* C21: the step in which a listener ends on an I/O error leaves the port
\* open and changes nothing of the connection, of the run or of the handler
\* in progress; afterwards the port is still the held connection, so that a
\* handler's next send and the runner's next write can still succeed.
C21_ListenerErrorChangesNothing ==
    /\ [][C21_Step]_vars
    /\ [](\A h \in Handles : ListenerDied(h) =>
             /\ serial_connection = h /\ Connected
             /\ ui_pc = "send" => ENABLED SendOk
             /\ \A r \in Runs :
                   /\ runner[r].serial = h /\ runner[r].pc = "L72"
                   /\ ~Skipped(Strip(RunnerLines(r)[runner[r].i + 1]))
                   => ENABLED RunnerWriteOk(r))

\* C21 witness: the listener of the held connection has ended on an I/O
\* error; a handler is between two sends, its first line written, and the
\* runner of a program is about to write a line.
C21_Witness ==
    \E h \in Handles : \E r \in Runs :
        /\ ListenerDied(h)
        /\ MidSequence
        /\ runner[r].serial = h /\ runner[r].pc = "L72"
        /\ ~Skipped(Strip(RunnerLines(r)[runner[r].i + 1]))


\* the program the claim expects for the editor texts of the model
C22_Program(text) ==
    CASE text = <<" ", "A", " ", "\n", "\n", "B">> -> << <<"A">>, <<"B">> >>
      [] text = <<"A", "\n", "B", "\n", "A">> -> << <<"A">>, <<"B">>, <<"A">> >>
      [] text = <<";", "c", "\n", "B", "\n", "(", "\n", "A">> ->
            << <<";", "c">>, <<"B">>, <<"(">>, <<"A">> >>
      [] OTHER -> <<>>

\* run() of the runner the window holds has returned, however it ended
PreviousRunEnded == gcode_runner # 0 /\ runner[gcode_runner].pc = "done"

C22_Step ==
    /\ ui_pc = "idle" /\ ui_op'.name = "run_gcode"
    /\ Connected /\ PreviousRunEnded
    /\ C22_Program(ui_op'.text) # <<>>
    => /\ ui_report' = <<"Started">>
       /\ gcode_runner' # gcode_runner
       /\ runner'[gcode_runner'] =
             [pc |-> "L61", i |-> 0, running |-> TRUE, paused |-> FALSE,
              lines |-> C22_Program(ui_op'.text), serial |-> serial_connection,
              total |-> Len(C22_Program(ui_op'.text)), wp |-> 0,
              trace |-> <<>>]

\* C22: when the run of the window's runner has ended (completed, failed or
\* stopped, paused or not), run_gcode on an open connection with a program
\* in the editor starts another runner object: at line 1 of the new program,
\* running set, paused clear, nothing written or emitted yet.
C22_RestartIsFresh == [][C22_Step]_vars

\* C22 witness: a second run has just been started, and its runner has not
\* taken a step yet.
C22_Witness ==
    /\ RunStarted
    /\ nRuns = 2 /\ gcode_runner = 2
    /\ runner[2].pc = "L61" /\ runner[2].i = 0
    /\ runner[2].running /\ ~runner[2].paused

=============================================================================
